---------------------------- MODULE Spec2Model ----------------------------
(***************************************************************************)
(* DataContainer<T> of src/framework/results/data/data_container.hpp:      *)
(* three string-keyed maps (additional data, per-shot snapshots, average   *)
(* snapshots) behind an enabled flag, with insertion, clear, combine (copy *)
(* and move form) and JSON export.                                         *)
(*                                                                         *)
(* The two snapshot classes (pershot_snapshot.hpp, average_snapshot.hpp)   *)
(* are collaborators of the container; they are modelled by their          *)
(* documented contract: add_data records a labelled datum, combine folds   *)
(* another snapshot in (associative and commutative), and combine may      *)
(* raise an exception, which the container does not catch.                 *)
(***************************************************************************)
EXTENDS Integers, FiniteSets, Bags, TLC

---------------------------------------------------------------------------
(* Bounds and input sets *)

\* Largest number of stored data (additional-data entries plus recorded
\* snapshot data) over all containers together; guards keep the model below it.
MaxData == 3

Keys    == {"shots"}                \* additional-data keys
Types   == {"counts"}               \* snapshot types ("kinds")
Labels  == {"00"}                   \* snapshot labels
Memory  == {"0x0"}                  \* classical memory values of average snapshots
Data    == {10, 20}                 \* values of the payload type T
Samples == {10}                     \* the values averaged by average snapshots
Forms   == {"rvalue", "const_ref", "ref"}   \* the three overloads of each insertion

EmptyMap == [x \in {} |-> 0]

---------------------------------------------------------------------------
(* Snapshot collaborators *)

\* A default-constructed PershotSnapshot<T> / AverageSnapshot<T>
EmptySnapshot == EmptyMap

\* PershotSnapshot<T>::add_data(label, datum): the data recorded per label
PershotAddData(snap, label, datum) ==
    [l \in DOMAIN snap \cup {label} |->
        IF l = label
        THEN (IF l \in DOMAIN snap THEN snap[l] ELSE EmptyBag) (+) SetToBag({datum})
        ELSE snap[l]]

\* PershotSnapshot<T>::combine(other): per label, the data of both sides
PershotCombine(snap, other) ==
    [l \in DOMAIN snap \cup DOMAIN other |->
        IF l \in DOMAIN snap /\ l \in DOMAIN other THEN snap[l] (+) other[l]
        ELSE IF l \in DOMAIN other THEN other[l]
        ELSE snap[l]]

\* AverageSnapshot<T>::add_data(label, memory, datum, variance): per
\* (label, memory) an accumulator, a sample count and a variance flag
AverageAddData(snap, label, memory, datum, variance) ==
    LET k == <<label, memory>> IN
    [x \in DOMAIN snap \cup {k} |->
        IF x # k THEN snap[x]
        ELSE IF k \in DOMAIN snap
             THEN [accum    |-> snap[k].accum + datum,
                   count    |-> snap[k].count + 1,
                   variance |-> snap[k].variance /\ variance]
             ELSE [accum |-> datum, count |-> 1, variance |-> variance]]

\* AverageSnapshot<T>::combine(other): accumulators and counts add up
AverageCombine(snap, other) ==
    [x \in DOMAIN snap \cup DOMAIN other |->
        IF x \in DOMAIN snap /\ x \in DOMAIN other
        THEN [accum    |-> snap[x].accum + other[x].accum,
              count    |-> snap[x].count + other[x].count,
              variance |-> snap[x].variance /\ other[x].variance]
        ELSE IF x \in DOMAIN other THEN other[x]
        ELSE snap[x]]

\* to_json of a PershotSnapshot: label -> recorded data
PershotToJson(snap) == [family |-> "pershot", labels |-> snap]

\* to_json of an AverageSnapshot: label/memory -> mean value and variance flag
AverageToJson(snap) ==
    [family |-> "average",
     labels |-> [x \in DOMAIN snap |->
                  [value    |-> snap[x].accum \div snap[x].count,
                   variance |-> snap[x].variance]]]

\* Number of data a snapshot holds
RECURSIVE SumOver(_, _)
SumOver(f, S) ==
    IF S = {} THEN 0
    ELSE LET x == CHOOSE y \in S : TRUE IN f[x] + SumOver(f, S \ {x})

PershotSize(snap) == SumOver([l \in DOMAIN snap |-> BagCardinality(snap[l])], DOMAIN snap)
AverageSize(snap) == SumOver([x \in DOMAIN snap |-> snap[x].count], DOMAIN snap)

---------------------------------------------------------------------------
(* DataContainer<T> *)

\* A freshly constructed container: empty maps, enabled_ = true
NewContainer ==
    [additional_data_   |-> EmptyMap,
     pershot_snapshots_ |-> EmptyMap,
     average_snapshots_ |-> EmptyMap,
     enabled_           |-> TRUE]


Maps(data) ==
    [additional_data_   |-> data.additional_data_,
     pershot_snapshots_ |-> data.pershot_snapshots_,
     average_snapshots_ |-> data.average_snapshots_]

\* Number of data a container holds
ContainerSize(data) ==
      Cardinality(DOMAIN data.additional_data_)
    + SumOver([t \in DOMAIN data.pershot_snapshots_ |->
                 PershotSize(data.pershot_snapshots_[t])],
              DOMAIN data.pershot_snapshots_)
    + SumOver([t \in DOMAIN data.average_snapshots_ |->
                 AverageSize(data.average_snapshots_[t])],
              DOMAIN data.average_snapshots_)

\* m[key] = value on a std map: insert or overwrite
Assign(m, key, value) ==
    [k \in DOMAIN m \cup {key} |-> IF k = key THEN value ELSE m[k]]

\* m[key] on a std map: the entry, default-constructed when absent
At(m, key) == IF key \in DOMAIN m THEN m[key] ELSE EmptySnapshot

\* add_additional_data(key, data), in its three overloads
add_additional_data(data, form, key, value) ==
    CASE form = "rvalue" ->
           IF data.enabled_
           THEN [data EXCEPT !.additional_data_ = Assign(@, key, value)]
           ELSE data
      [] form = "const_ref" ->
           IF data.enabled_
           THEN [data EXCEPT !.additional_data_ = Assign(@, key, value)]
           ELSE data
      [] form = "ref" ->
           IF data.enabled_
           THEN [data EXCEPT !.additional_data_ = Assign(@, key, value)]
           ELSE data

\* add_pershot_snapshot whose rvalue overload lacks the enabled_ test
add_pershot_snapshot_ungated(data, form, type, label, datum) ==
    IF data.enabled_ \/ form = "rvalue"
    THEN [data EXCEPT !.pershot_snapshots_ =
             Assign(@, type, PershotAddData(At(@, type), label, datum))]
    ELSE data

\* add_pershot_snapshot(type, label, datum), in its three overloads
add_pershot_snapshot(data, form, type, label, datum) ==
    CASE form = "rvalue" ->
           IF data.enabled_
           THEN [data EXCEPT !.pershot_snapshots_ =
                    Assign(@, type, PershotAddData(At(@, type), label, datum))]
           ELSE data
      [] form = "const_ref" ->
           IF data.enabled_
           THEN [data EXCEPT !.pershot_snapshots_ =
                    Assign(@, type, PershotAddData(At(@, type), label, datum))]
           ELSE data
      [] form = "ref" ->
           IF data.enabled_
           THEN [data EXCEPT !.pershot_snapshots_ =
                    Assign(@, type, PershotAddData(At(@, type), label, datum))]
           ELSE data

\* add_average_snapshot(type, label, memory, datum, variance), in its three overloads
add_average_snapshot(data, form, type, label, memory, datum, variance) ==
    CASE form = "rvalue" ->
           IF data.enabled_
           THEN [data EXCEPT !.average_snapshots_ =
                    Assign(@, type, AverageAddData(At(@, type), label, memory, datum, variance))]
           ELSE data
      [] form = "const_ref" ->
           IF data.enabled_
           THEN [data EXCEPT !.average_snapshots_ =
                    Assign(@, type, AverageAddData(At(@, type), label, memory, datum, variance))]
           ELSE data
      [] form = "ref" ->
           IF data.enabled_
           THEN [data EXCEPT !.average_snapshots_ =
                    Assign(@, type, AverageAddData(At(@, type), label, memory, datum, variance))]
           ELSE data

\* enable(value)
enable(data, value) == [data EXCEPT !.enabled_ = value]

\* clear that forgets the per-shot snapshots
clear_partial(data) ==
    [data EXCEPT !.additional_data_   = EmptyMap,
                 !.average_snapshots_ = EmptyMap]

\* clear()
clear(data) ==
    [data EXCEPT !.additional_data_   = EmptyMap,
                 !.average_snapshots_ = EmptyMap,
                 !.pershot_snapshots_ = EmptyMap]

---------------------------------------------------------------------------
(* combine *)

\* Where a call of combine ends: it returns, or a snapshot's combine raises
\* while folding `type` in one of the two snapshot loops, after the loop has
\* folded the types in `done` (the maps iterate in no specified order).
NoThrow == [loop |-> "none", type |-> "", done |-> {}]

ThrowsIn(loop, types) ==
    UNION {{[loop |-> loop, type |-> t, done |-> d] : d \in SUBSET (types \ {t})} :
             t \in types}

Throws(other) ==
    {NoThrow}
    \cup ThrowsIn("pershot", DOMAIN other.pershot_snapshots_)
    \cup ThrowsIn("average", DOMAIN other.average_snapshots_)

\* The additional-data loop inserting without overwriting
LoopAdditional_keep(mine, theirs) ==
    [k \in DOMAIN mine \cup DOMAIN theirs |->
        IF k \in DOMAIN mine THEN mine[k] ELSE theirs[k]]

\* The loop over other.additional_data_: additional_data_[k] = v
LoopAdditional(mine, theirs) ==
    [k \in DOMAIN mine \cup DOMAIN theirs |->
        IF k \in DOMAIN theirs THEN theirs[k] ELSE mine[k]]

\* The per-shot loop combining each snapshot of other twice
LoopPershot_twice(mine, theirs, types) ==
    [t \in DOMAIN mine \cup types |->
        IF t \in types
        THEN PershotCombine(PershotCombine(At(mine, t), theirs[t]), theirs[t])
        ELSE mine[t]]

\* The per-shot loop assigning other's snapshot instead of combining it
LoopPershot_assign(mine, theirs, types) ==
    [t \in DOMAIN mine \cup types |-> IF t \in types THEN theirs[t] ELSE mine[t]]

\* The per-shot loop combining only into the types already present
LoopPershot_present(mine, theirs, types) ==
    [t \in DOMAIN mine |->
        IF t \in types THEN PershotCombine(mine[t], theirs[t]) ELSE mine[t]]

\* The iterations of the loop over other.pershot_snapshots_ for the types in
\* `types`: pershot_snapshots_[t].combine(other's snapshot of t)
LoopPershot(mine, theirs, types) ==
    [t \in DOMAIN mine \cup types |->
        IF t \in types THEN PershotCombine(At(mine, t), theirs[t]) ELSE mine[t]]

\* The iterations of the loop over other.average_snapshots_ for the types in
\* `types`: average_snapshots_[t].combine(other's snapshot of t)
LoopAverage(mine, theirs, types) ==
    [t \in DOMAIN mine \cup types |->
        IF t \in types THEN AverageCombine(At(mine, t), theirs[t]) ELSE mine[t]]

\* The iteration that raises: snapshots_[t] is evaluated (creating a default
\* entry when t is absent), then the snapshot's combine raises
LoopRaises(mine, t) == Assign(mine, t, At(mine, t))

\* The state of `this` when the loops of combine(other) end as `throw` says
Combined(this, other, throw) ==
    LET ps == other.pershot_snapshots_
        av == other.average_snapshots_
    IN
    [this EXCEPT
       !.additional_data_ = LoopAdditional(@, other.additional_data_),
       !.pershot_snapshots_ =
            CASE throw.loop = "pershot" ->
                   LoopRaises(LoopPershot(@, ps, throw.done), throw.type)
              [] OTHER -> LoopPershot(@, ps, DOMAIN ps),
       !.average_snapshots_ =
            CASE throw.loop = "pershot" -> @
              [] throw.loop = "average" ->
                   LoopRaises(LoopAverage(@, av, throw.done), throw.type)
              [] OTHER -> LoopAverage(@, av, DOMAIN av)]

\* Copy-combine that merges nothing from a disabled container
combine_copy_gated(this, other, throw) ==
    [this   |-> IF other.enabled_ THEN Combined(this, other, throw) ELSE this,
     other  |-> other,
     thrown |-> throw.loop # "none"]

\* Copy-combine that undoes its changes when a snapshot raises
combine_copy_rollback(this, other, throw) ==
    [this   |-> IF throw.loop = "none" THEN Combined(this, other, throw) ELSE this,
     other  |-> other,
     thrown |-> throw.loop # "none"]

\* Copy-combine that clears its operand like the move form
combine_copy_clears(this, other, throw) ==
    [this   |-> Combined(this, other, throw),
     other  |-> clear(other),
     thrown |-> throw.loop # "none"]

\* Move-combine without the final other.clear()
combine_move_noclear(this, other, throw) ==
    [this   |-> Combined(this, other, throw),
     other  |-> other,
     thrown |-> throw.loop # "none"]

\* combine(const DataContainer<T> &other): copy semantics
combine_copy(this, other, throw) ==
    [this   |-> Combined(this, other, throw),
     other  |-> other,
     thrown |-> throw.loop # "none"]

\* combine(DataContainer<T> &&other): move semantics; other.clear() is the
\* last statement, not reached when a snapshot's combine raises
combine_move(this, other, throw) ==
    [this   |-> Combined(this, other, throw),
     other  |-> IF throw.loop = "none" THEN clear(other) ELSE other,
     thrown |-> throw.loop # "none"]

---------------------------------------------------------------------------
(* JSON export *)

\* to_json(js, data): js is the document being built (other writers may have
\* added to it), a map from top-level keys to values whose "snapshots" entry
\* is a map from snapshot type to the snapshot's JSON
Over(m, n) == [k \in DOMAIN m \cup DOMAIN n |-> IF k \in DOMAIN n THEN n[k] ELSE m[k]]

to_json(js, data) ==
    IF ~data.enabled_ THEN js
    ELSE
      LET js1   == Over(js, data.additional_data_)
          avg   == [t \in DOMAIN data.average_snapshots_ |->
                      AverageToJson(data.average_snapshots_[t])]
          shots == [t \in DOMAIN data.pershot_snapshots_ |->
                      PershotToJson(data.pershot_snapshots_[t])]
          snaps == Over(Over(At(js1, "snapshots"), avg), shots)
      IN IF DOMAIN avg = {} /\ DOMAIN shots = {}
         THEN js1
         ELSE Assign(js1, "snapshots", snaps)

\* Documents handed to to_json: an empty one, and one another writer has
\* already added a top-level key and a snapshot to
InputDocs ==
    {EmptyMap,
     [k \in {"success", "snapshots"} |->
        IF k = "success" THEN 1
        ELSE [t \in {"counts"} |-> [family |-> "other", labels |-> EmptyMap]]]}

---------------------------------------------------------------------------
(* State machine *)

VARIABLES
    c,      \* the containers: c[i] is the DataContainer<T> instance i
    call,   \* the call that has just been made (its name, receiver and operand), or Idle
    pre,    \* the containers as they were before that call
    ret     \* what that call produced

vars == <<c, call, pre, ret>>

Ids == DOMAIN c

Idle == [name |-> "none"]
Void == [thrown |-> FALSE]

TotalSize(cs) == SumOver([i \in DOMAIN cs |-> ContainerSize(cs[i])], DOMAIN cs)

\* Two containers, freshly constructed
Init ==
    /\ c = [i \in {"A", "B"} |-> NewContainer]
    /\ call = Idle
    /\ pre = c
    /\ ret = Void

\* A call is made when the previous one has returned, and no call makes the
\* containers hold more than MaxData data together
Called(descr, cs, result) ==
    /\ call = Idle
    /\ TotalSize(cs) <= MaxData
    /\ c' = cs
    /\ call' = descr
    /\ pre' = c
    /\ ret' = result

AddAdditionalData ==
    \E i \in Ids, form \in Forms, key \in Keys, value \in Data :
        Called([name |-> "add_additional_data", this |-> i],
               [c EXCEPT ![i] = add_additional_data(@, form, key, value)],
               Void)

AddPershotSnapshot ==
    \E i \in Ids, form \in Forms, type \in Types, label \in Labels, datum \in Data :
        Called([name |-> "add_pershot_snapshot", this |-> i],
               [c EXCEPT ![i] = add_pershot_snapshot(@, form, type, label, datum)],
               Void)

AddAverageSnapshot ==
    \E i \in Ids, form \in Forms, type \in Types, label \in Labels,
       memory \in Memory, datum \in Samples, variance \in BOOLEAN :
        Called([name |-> "add_average_snapshot", this |-> i],
               [c EXCEPT ![i] =
                    add_average_snapshot(@, form, type, label, memory, datum, variance)],
               Void)

Enable ==
    \E i \in Ids, value \in BOOLEAN :
        Called([name |-> "enable", this |-> i],
               [c EXCEPT ![i] = enable(@, value)],
               Void)

Clear ==
    \E i \in Ids :
        Called([name |-> "clear", this |-> i],
               [c EXCEPT ![i] = clear(@)],
               Void)

\* this.combine(other) and this += other with an lvalue operand
CombineCopy ==
    \E i \in Ids :
        \E j \in Ids \ {i} : \E throw \in Throws(c[j]) :
            LET r == combine_copy(c[i], c[j], throw) IN
            Called([name |-> "combine_copy", this |-> i, other |-> j],
                   [c EXCEPT ![i] = r.this, ![j] = r.other],
                   [thrown |-> r.thrown])

\* this.combine(std::move(other)) and this += std::move(other)
CombineMove ==
    \E i \in Ids :
        \E j \in Ids \ {i} : \E throw \in Throws(c[j]) :
            LET r == combine_move(c[i], c[j], throw) IN
            Called([name |-> "combine_move", this |-> i, other |-> j],
                   [c EXCEPT ![i] = r.this, ![j] = r.other],
                   [thrown |-> r.thrown])

\* to_json(js, data) on container i
ToJson ==
    \E i \in Ids, js \in InputDocs :
        Called([name |-> "to_json", this |-> i, js |-> js],
               c,
               [thrown |-> FALSE, js |-> to_json(js, c[i])])

\* The caller goes on after the call
Return ==
    /\ call # Idle
    /\ call' = Idle
    /\ pre' = c
    /\ ret' = Void
    /\ UNCHANGED c

Next ==
    \/ AddAdditionalData
    \/ AddPershotSnapshot
    \/ AddAverageSnapshot
    \/ Enable
    \/ Clear
    \/ CombineCopy
    \/ CombineMove
    \/ ToJson
    \/ Return

Spec == Init /\ [][Next]_vars

---------------------------------------------------------------------------
(* Reduction of independently populated containers *)

\* Three containers, freshly constructed
InitReduce ==
    /\ c = [i \in {"A", "B", "C"} |-> NewContainer]
    /\ call = Idle
    /\ pre = c
    /\ ret = Void

\* A worker fills its own container
Populated(cs) ==
    /\ call = Idle
    /\ TotalSize(cs) <= MaxData
    /\ c' = cs
    /\ pre' = cs
    /\ UNCHANGED <<call, ret>>

PopulateAdditionalData ==
    \E i \in Ids, form \in Forms, key \in Keys, value \in Data :
        Populated([c EXCEPT ![i] = add_additional_data(@, form, key, value)])

PopulatePershotSnapshot ==
    \E i \in Ids, form \in Forms, type \in Types, label \in Labels, datum \in Data :
        Populated([c EXCEPT ![i] = add_pershot_snapshot(@, form, type, label, datum)])

PopulateAverageSnapshot ==
    \E i \in Ids, form \in Forms, type \in Types, label \in Labels,
       memory \in Memory, datum \in Samples, variance \in BOOLEAN :
        Populated([c EXCEPT ![i] =
                     add_average_snapshot(@, form, type, label, memory, datum, variance)])

PopulateEnable ==
    \E i \in Ids, value \in BOOLEAN :
        Populated([c EXCEPT ![i] = enable(@, value)])

\* The orders in which the three containers can be combined
Orders == {p \in [1..3 -> Ids] : \A x, y \in 1..3 : x # y => p[x] # p[y]}

\* copy += other, no snapshot raising
Plus(this, other) == combine_copy(this, other, NoThrow).this

\* The containers are reduced, copies being combined: in every order p,
\* (p1 += p2) += p3 and p1 += (p2 += p3), and the pairs p1 += p2
Reduce ==
    /\ call = Idle
    /\ Called([name |-> "reduce"],
              c,
              [thrown |-> FALSE,
               pair    |-> [p \in Orders |-> Plus(c[p[1]], c[p[2]])],
               left    |-> [p \in Orders |-> Plus(Plus(c[p[1]], c[p[2]]), c[p[3]])],
               right   |-> [p \in Orders |-> Plus(c[p[1]], Plus(c[p[2]], c[p[3]]))]])

NextReduce ==
    \/ PopulateAdditionalData
    \/ PopulatePershotSnapshot
    \/ PopulateAverageSnapshot
    \/ PopulateEnable
    \/ Reduce
    \/ Return

SpecReduce == InitReduce /\ [][NextReduce]_vars

---------------------------------------------------------------------------
(* Vocabulary of the properties *)

Insertions == {"add_additional_data", "add_pershot_snapshot", "add_average_snapshot"}
Combines   == {"combine_copy", "combine_move"}

NoData(data) ==
    /\ DOMAIN data.additional_data_ = {}
    /\ DOMAIN data.pershot_snapshots_ = {}
    /\ DOMAIN data.average_snapshots_ = {}

\* r is a overwritten, key by key, by b
Overwritten(a, b, r) ==
    /\ DOMAIN r = DOMAIN a \cup DOMAIN b
    /\ \A k \in DOMAIN b : r[k] = b[k]
    /\ \A k \in DOMAIN a \ DOMAIN b : r[k] = a[k]

\* r holds the pershot snapshots of a and b, those of a type in both merged
PershotMerged(a, b, r) ==
    /\ DOMAIN r = DOMAIN a \cup DOMAIN b
    /\ \A t \in DOMAIN a \ DOMAIN b : r[t] = a[t]
    /\ \A t \in DOMAIN b \ DOMAIN a : r[t] = b[t]
    /\ \A t \in DOMAIN a \cap DOMAIN b :
          /\ r[t] = PershotCombine(a[t], b[t])
          /\ DOMAIN r[t] = DOMAIN a[t] \cup DOMAIN b[t]

\* r holds the average snapshots of a and b, those of a type in both merged
AverageMerged(a, b, r) ==
    /\ DOMAIN r = DOMAIN a \cup DOMAIN b
    /\ \A t \in DOMAIN a \ DOMAIN b : r[t] = a[t]
    /\ \A t \in DOMAIN b \ DOMAIN a : r[t] = b[t]
    /\ \A t \in DOMAIN a \cap DOMAIN b :
          /\ r[t] = AverageCombine(a[t], b[t])
          /\ DOMAIN r[t] = DOMAIN a[t] \cup DOMAIN b[t]

\* r is the complete merge of b into a
CompleteMerge(a, b, r) ==
    /\ Overwritten(a.additional_data_, b.additional_data_, r.additional_data_)
    /\ PershotMerged(a.pershot_snapshots_, b.pershot_snapshots_, r.pershot_snapshots_)
    /\ AverageMerged(a.average_snapshots_, b.average_snapshots_, r.average_snapshots_)

\* Every entry of the snapshot map r is a's entry (a default one where a had
\* none) or the merged entry m has for it, and no entry of a is lost
EntryWise(a, m, r) ==
    /\ DOMAIN a \subseteq DOMAIN r
    /\ DOMAIN r \subseteq DOMAIN m
    /\ \A t \in DOMAIN r : r[t] = m[t] \/ r[t] = At(a, t)

---------------------------------------------------------------------------
(* C3: gating *)

\* C3: an insertion (add_additional_data, add_pershot_snapshot or
\* add_average_snapshot, in any overload) on a container whose enabled_ flag
\* is false leaves every container, and so all three of its maps, as it was.
C3_DisabledInsertionIsNoOp ==
    (call.name \in Insertions /\ ~pre[call.this].enabled_) => c = pre

\* A per-shot insertion has been made on a disabled container that holds
\* additional data and no snapshot.
C3_Witness ==
    /\ call.name = "add_pershot_snapshot"
    /\ ~pre[call.this].enabled_
    /\ DOMAIN pre[call.this].additional_data_ # {}
    /\ DOMAIN c[call.this].pershot_snapshots_ = {}

---------------------------------------------------------------------------
(* C4: the move form empties its operand *)

\* C4: when combine(std::move(other)) has returned, the three maps of other
\* are empty and other's enabled_ flag is what it was.
C4_MoveEmptiesSource ==
    (call.name = "combine_move" /\ ~ret.thrown) =>
        /\ NoData(c[call.other])
        /\ c[call.other].enabled_ = pre[call.other].enabled_

\* A move-combine has returned whose operand held additional data, a per-shot
\* snapshot and an average snapshot.
C4_Witness ==
    /\ call.name = "combine_move"
    /\ ~ret.thrown
    /\ DOMAIN pre[call.other].additional_data_ # {}
    /\ DOMAIN pre[call.other].pershot_snapshots_ # {}
    /\ DOMAIN pre[call.other].average_snapshots_ # {}
    /\ NoData(c[call.other])

---------------------------------------------------------------------------
(* C5: the copy form leaves its operand alone *)

\* C5: after combine(const other &), however it ends, other is what it was:
\* its three maps and its enabled_ flag.
C5_CopyPreservesSource ==
    call.name = "combine_copy" => c[call.other] = pre[call.other]

\* A copy-combine has changed its receiver, from an operand holding data.
C5_Witness ==
    /\ call.name = "combine_copy"
    /\ ~NoData(pre[call.other])
    /\ c[call.this] # pre[call.this]
    /\ c[call.other] = pre[call.other]

---------------------------------------------------------------------------
(* C6: additional data are last-writer-wins *)

\* C6: after combine in either form, the additional data of the receiver are
\* its former ones overwritten by those of other: every key of other has
\* other's value, every key of the receiver alone keeps its value, and the
\* key set is the union; the returned move form leaves other's empty.
C6_AdditionalDataLastWriterWins ==
    call.name \in Combines =>
        /\ Overwritten(pre[call.this].additional_data_,
                       pre[call.other].additional_data_,
                       c[call.this].additional_data_)
        /\ (call.name = "combine_move" /\ ~ret.thrown) =>
               DOMAIN c[call.other].additional_data_ = {}

\* A["shots"] = 10, B["shots"] = 20, A.combine(std::move(B)) has returned:
\* A["shots"] = 20 and B holds no additional data.
C6_Witness ==
    /\ call = [name |-> "combine_move", this |-> "A", other |-> "B"]
    /\ ~ret.thrown
    /\ "shots" \in DOMAIN pre["A"].additional_data_
    /\ "shots" \in DOMAIN pre["B"].additional_data_
    /\ pre["A"].additional_data_["shots"] = 10
    /\ pre["B"].additional_data_["shots"] = 20
    /\ c["A"].additional_data_["shots"] = 20
    /\ DOMAIN c["B"].additional_data_ = {}

---------------------------------------------------------------------------
(* C7: combine and a snapshot that raises *)

\* The entry of key k in the additional data m, or none
Entry(m, k) == IF k \in DOMAIN m THEN <<m[k]>> ELSE <<>>

\* The additional-data keys of b whose merge changes a, and that hold b's
\* value in r (applied = TRUE) or do not (applied = FALSE)
AdditionalOf(a, b, r, applied) ==
    {k \in DOMAIN b.additional_data_ :
        /\ Entry(a.additional_data_, k) # <<b.additional_data_[k]>>
        /\ (Entry(r.additional_data_, k) = <<b.additional_data_[k]>>) = applied}

\* Likewise the per-shot snapshot types of b
PershotOf(a, b, r, applied) ==
    {t \in DOMAIN b.pershot_snapshots_ :
        LET m == PershotCombine(At(a.pershot_snapshots_, t), b.pershot_snapshots_[t]) IN
        /\ m # At(a.pershot_snapshots_, t)
        /\ (At(r.pershot_snapshots_, t) = m) = applied}

\* Likewise the average snapshot types of b
AverageOf(a, b, r, applied) ==
    {t \in DOMAIN b.average_snapshots_ :
        LET m == AverageCombine(At(a.average_snapshots_, t), b.average_snapshots_[t]) IN
        /\ m # At(a.average_snapshots_, t)
        /\ (At(r.average_snapshots_, t) = m) = applied}

---------------------------------------------------------------------------
(* C8: enabled_ gates insertion only *)

\* The maps combine gives the receiver, whatever the two enabled_ flags were
SameForAllFlags(name, this, other, r) ==
    \A f \in BOOLEAN, g \in BOOLEAN :
        LET a == [this EXCEPT !.enabled_ = f]
            b == [other EXCEPT !.enabled_ = g]
        IN IF name = "combine_copy"
           THEN Maps(combine_copy(a, b, NoThrow).this) = Maps(r)
           ELSE Maps(combine_move(a, b, NoThrow).this) = Maps(r)

\* C8: the maps a returned combine leaves in the receiver are the same for
\* every combination of enabled and disabled receiver and operand;
\* enable(value) changes no map; and no call but enable changes the enabled_
\* flag of any container.
C8_EnabledGatesOnlyInsertion ==
    /\ (call.name \in Combines /\ ~ret.thrown) =>
          /\ SameForAllFlags(call.name, pre[call.this], pre[call.other], c[call.this])
          /\ CompleteMerge(pre[call.this], pre[call.other], c[call.this])
    /\ call.name = "enable" =>
          /\ \A i \in Ids : Maps(c[i]) = Maps(pre[i])
          /\ \A i \in Ids \ {call.this} : c[i] = pre[i]
    /\ call.name # "enable" =>
          \A i \in Ids : c[i].enabled_ = pre[i].enabled_

\* A combine of a disabled operand holding data into a disabled receiver
\* has merged the data.
C8_Witness ==
    /\ call.name = "combine_copy"
    /\ ~ret.thrown
    /\ ~pre[call.this].enabled_
    /\ ~pre[call.other].enabled_
    /\ ~NoData(pre[call.other])
    /\ Maps(c[call.this]) # Maps(pre[call.this])
    /\ ~c[call.this].enabled_

---------------------------------------------------------------------------
(* C9: clear is total *)

\* C9: after clear() the three maps of the container are empty, its enabled_
\* flag is what it was, and exporting it while enabled leaves any document
\* as it is: no top-level key and no "snapshots" entry is added.
C9_ClearIsTotal ==
    /\ call.name = "clear" =>
          /\ NoData(c[call.this])
          /\ c[call.this].enabled_ = pre[call.this].enabled_
          /\ \A js \in InputDocs : to_json(js, enable(c[call.this], TRUE)) = js
    /\ (call.name = "to_json" /\ NoData(c[call.this])) => ret.js = call.js

\* clear() has been called on an enabled container reached by insertions and
\* a combine, holding data in all three maps.
C9_Witness ==
    /\ call.name = "clear"
    /\ pre[call.this].enabled_
    /\ DOMAIN pre[call.this].additional_data_ # {}
    /\ DOMAIN pre[call.this].pershot_snapshots_ # {}
    /\ DOMAIN pre[call.this].average_snapshots_ # {}
    /\ to_json(EmptyMap, pre[call.this]) # EmptyMap
    /\ to_json(EmptyMap, c[call.this]) = EmptyMap

---------------------------------------------------------------------------
(* C10: per-type merge *)

\* C10: when combine, in either form, has returned, each snapshot map of the
\* receiver has the types of both sides; a type of other alone has other's
\* snapshot, a type of both has the receiver's snapshot combined with
\* other's (the labels of both sides kept), a type of the receiver alone is
\* unchanged; and each map is decided by the two maps of its own family.
C10_PerTypeMerge ==
    (call.name \in Combines /\ ~ret.thrown) =>
        LET a == pre[call.this]
            b == pre[call.other]
            r == c[call.this]
        IN
        /\ PershotMerged(a.pershot_snapshots_, b.pershot_snapshots_, r.pershot_snapshots_)
        /\ AverageMerged(a.average_snapshots_, b.average_snapshots_, r.average_snapshots_)
        /\ DOMAIN b.pershot_snapshots_ = {} => r.pershot_snapshots_ = a.pershot_snapshots_
        /\ DOMAIN b.average_snapshots_ = {} => r.average_snapshots_ = a.average_snapshots_

\* Both sides had recorded a different datum under "counts"/"00"; the
\* combine has returned and the receiver holds both data under that label.
C10_Witness ==
    /\ call.name \in Combines
    /\ ~ret.thrown
    /\ "counts" \in DOMAIN pre[call.this].pershot_snapshots_
    /\ "counts" \in DOMAIN pre[call.other].pershot_snapshots_
    /\ pre[call.this].pershot_snapshots_["counts"] = [l \in {"00"} |-> SetToBag({10})]
    /\ pre[call.other].pershot_snapshots_["counts"] = [l \in {"00"} |-> SetToBag({20})]
    /\ c[call.this].pershot_snapshots_["counts"] = [l \in {"00"} |-> SetToBag({10, 20})]
    /\ DOMAIN pre[call.other].average_snapshots_ # {}
    /\ DOMAIN pre[call.this].average_snapshots_ = {}

---------------------------------------------------------------------------
(* C1, C2: combine as a reduction, checked under SpecReduce *)

\* The order p with its first two containers exchanged
Swapped(p) == [x \in 1..3 |-> IF x = 1 THEN p[2] ELSE IF x = 2 THEN p[1] ELSE p[3]]

\* The containers holding additional-data key k
Holders(k) == {i \in Ids : k \in DOMAIN c[i].additional_data_}

\* The last container of the first n of order p that holds key k
LastHolder(p, n, k) ==
    p[CHOOSE x \in 1..n :
        /\ p[x] \in Holders(k)
        /\ \A y \in 1..n : p[y] \in Holders(k) => y <= x]

\* C1: for the three containers in any order (A, B, C), B combined into a
\* copy of A and then C into the result gives the same additional data, the
\* same snapshot maps, and so the same exported document, as C combined into
\* a copy of B and that result combined into a copy of A.
C1_CombineAssociative ==
    call.name = "reduce" =>
        \A p \in Orders :
            /\ ret.left[p] = ret.right[p]
            /\ \A js \in InputDocs : to_json(js, ret.left[p]) = to_json(js, ret.right[p])

\* The three containers each hold a per-shot snapshot of "counts", two of
\* them with different data, and have been reduced in both groupings.
C1_Witness ==
    /\ call.name = "reduce"
    /\ \A i \in Ids : "counts" \in DOMAIN c[i].pershot_snapshots_
    /\ c["A"].pershot_snapshots_ # c["B"].pershot_snapshots_
    /\ \A p \in Orders :
          BagCardinality(ret.left[p].pershot_snapshots_["counts"]["00"]) = 3
    /\ \E js \in InputDocs : to_json(js, ret.left[<<"A", "B", "C">>]) # js

\* C2, as claimed: the containers combined in any order and any grouping
\* give identical additional data and snapshot maps; in particular B
\* combined into a copy of A equals A combined into a copy of B.
C2_OrderIndependent ==
    call.name = "reduce" =>
        \A p \in Orders :
            /\ \A q \in Orders :
                  /\ Maps(ret.left[p]) = Maps(ret.left[q])
                  /\ Maps(ret.right[p]) = Maps(ret.left[q])
            /\ Maps(ret.pair[p]) = Maps(ret.pair[Swapped(p)])

\* C2, amended: in any order and any grouping the snapshot maps and the
\* additional-data keys are identical, and so is the value of every
\* additional-data key whose holders agree on it; a key whose holders
\* disagree has the value of the holder combined last.
C2_OrderIndependentButForLastWriter ==
    call.name = "reduce" =>
        \A p \in Orders :
            /\ \A q \in Orders : \A r \in {ret.left[q], ret.right[q]} :
                  /\ ret.left[p].pershot_snapshots_ = r.pershot_snapshots_
                  /\ ret.left[p].average_snapshots_ = r.average_snapshots_
                  /\ DOMAIN ret.left[p].additional_data_ = DOMAIN r.additional_data_
                  /\ \A k \in DOMAIN r.additional_data_ :
                        (\A i, j \in Holders(k) :
                            c[i].additional_data_[k] = c[j].additional_data_[k])
                        => ret.left[p].additional_data_[k] = r.additional_data_[k]
            /\ ret.pair[p].pershot_snapshots_ = ret.pair[Swapped(p)].pershot_snapshots_
            /\ ret.pair[p].average_snapshots_ = ret.pair[Swapped(p)].average_snapshots_
            /\ DOMAIN ret.pair[p].additional_data_
                  = DOMAIN ret.pair[Swapped(p)].additional_data_
            /\ \A k \in DOMAIN ret.left[p].additional_data_ :
                  /\ ret.left[p].additional_data_[k]
                        = c[LastHolder(p, 3, k)].additional_data_[k]
                  /\ ret.right[p].additional_data_[k]
                        = c[LastHolder(p, 3, k)].additional_data_[k]
            /\ \A k \in DOMAIN ret.pair[p].additional_data_ :
                  ret.pair[p].additional_data_[k]
                     = c[LastHolder(p, 2, k)].additional_data_[k]

\* A and B hold different values for "shots" and C a per-shot snapshot; the
\* reduction has given C's snapshot in every order, and "shots" the value
\* of whichever of A and B was combined last.
C2_Witness ==
    /\ call.name = "reduce"
    /\ "shots" \in DOMAIN c["A"].additional_data_
    /\ "shots" \in DOMAIN c["B"].additional_data_
    /\ c["A"].additional_data_["shots"] # c["B"].additional_data_["shots"]
    /\ DOMAIN c["C"].pershot_snapshots_ # {}
    /\ ret.pair[<<"A", "B", "C">>].additional_data_["shots"]
          = c["B"].additional_data_["shots"]
    /\ ret.pair[<<"B", "A", "C">>].additional_data_["shots"]
          = c["A"].additional_data_["shots"]
    /\ \A p \in Orders : ret.left[p].pershot_snapshots_ = c["C"].pershot_snapshots_

=============================================================================
